---- MODULE Spec2Model ----
(***************************************************************************)
(* relay-rank (src/main.rs): read relay records from standard input, one   *)
(* per line; drop the unsuitable ones; score the rest with rank(); sort    *)
(* the scored candidates by score, best first; print the first 20.         *)
(*                                                                         *)
(* Machine integers.  The program computes on u64 and i64.  TLC's integers *)
(* are 32 bits wide, so the machine word is modelled Width bits wide: u64  *)
(* is 0 .. 2^Width - 1 and i64 is -2^(Width-1) .. 2^(Width-1) - 1, with    *)
(* the same wrap-around and the same overflow checks at the word edge.     *)
(*                                                                         *)
(* f32.  A float is a record [k, s, m]: k is "nan", "inf" or "fin", s is   *)
(* the sign (1 or -1) and m the magnitude in units of 1/Scale.  Zero is    *)
(* signed, as in IEEE 754.  A finite result is rounded towards zero to the *)
(* grid; the special values follow IEEE 754.  The grid is coarser than the  *)
(* 24 bits of an f32, so the inputs of the model have ages of whole days:  *)
(* on them two scores coincide on the grid only when they coincide in f32. *)
(***************************************************************************)
EXTENDS Integers, Sequences, FiniteSets

\* Bits of the modelled machine word (u64 and i64 of the program).
Width == 20

\* main.rs:101, the seconds of a day in the age penalty.
Day == 86400

\* main.rs:103, the exponent 1.414 of the success rate, as PowNum / PowDen.
PowNum == 1414

PowDen == 1000

\* main.rs:81, take(20).
TopN == 20

RECURSIVE Pow2(_)
Pow2(n) == IF n = 0 THEN 1 ELSE 2 * Pow2(n - 1)

U64Modulus == Pow2(Width)

U64Max == U64Modulus - 1

I64Max == Pow2(Width - 1) - 1

I64Min == 0 - Pow2(Width - 1)

\* Option<T>: None is the empty sequence, Some(v) the sequence <<v>>.
None == << >>

Some(v) == <<v>>

----------------------------------------------------------------------------
(* Integer arithmetic of the build: overflow of + and - panics when the    *)
(* build has overflow checks (debug), and wraps when it has none (release).*)

\* `x as i64` for a u64 x: the same bits, read as two's complement.
AsI64(x) == IF x > I64Max THEN x - U64Modulus ELSE x

\* a + b on u64: [panic, v].
AddU64(a, b, checks) ==
    IF a + b > U64Max
    THEN [panic |-> checks, v |-> (a + b) % U64Modulus]
    ELSE [panic |-> FALSE, v |-> a + b]

\* a - b on i64: [panic, v].
SubI64(a, b, checks) ==
    IF a - b > I64Max THEN [panic |-> checks, v |-> a - b - U64Modulus]
    ELSE IF a - b < I64Min THEN [panic |-> checks, v |-> a - b + U64Modulus]
    ELSE [panic |-> FALSE, v |-> a - b]

----------------------------------------------------------------------------
(* f32 *)

Scale == Day

NaN == [k |-> "nan", s |-> 1, m |-> 0]

Inf(s) == [k |-> "inf", s |-> s, m |-> 0]

Fin(s, m) == [k |-> "fin", s |-> s, m |-> m]

One == Fin(1, Scale)

IsNaN(x) == x.k = "nan"

IsZero(x) == x.k = "fin" /\ x.m = 0

\* <<floor(a * b / c), (a * b) % c>> for a, b >= 0 and c > 0, without forming a * b.
RECURSIVE MulDivQR(_, _, _)
MulDivQR(a, b, c) ==
    IF b = 0 THEN <<0, 0>>
    ELSE LET h == MulDivQR(a, b \div 2, c)
             r == 2 * h[2] + (b % 2) * (a % c)
         IN  <<2 * h[1] + (b % 2) * (a \div c) + (r \div c), r % c>>

\* The arguments are bound to their values before the recursion starts.
MulDiv(a, b, c) ==
    CHOOSE q \in {MulDivQR(x, y, z)[1] : x \in {a}, y \in {b}, z \in {c}} : TRUE

\* x * y
FMul(x, y) ==
    IF IsNaN(x) \/ IsNaN(y) THEN NaN
    ELSE IF (x.k = "inf" /\ IsZero(y)) \/ (IsZero(x) /\ y.k = "inf") THEN NaN
    ELSE IF x.k = "inf" \/ y.k = "inf" THEN Inf(x.s * y.s)
    ELSE Fin(x.s * y.s, MulDiv(x.m, y.m, Scale))

\* x / y
FDiv(x, y) ==
    IF IsNaN(x) \/ IsNaN(y) THEN NaN
    ELSE IF (x.k = "inf" /\ y.k = "inf") \/ (IsZero(x) /\ IsZero(y)) THEN NaN
    ELSE IF x.k = "inf" \/ IsZero(y) THEN Inf(x.s * y.s)
    ELSE IF y.k = "inf" THEN Fin(x.s * y.s, 0)
    ELSE Fin(x.s * y.s, MulDiv(x.m, Scale, y.m))

\* x + y; an exact zero sum of opposite signs is +0.0
FAdd(x, y) ==
    IF IsNaN(x) \/ IsNaN(y) THEN NaN
    ELSE IF x.k = "inf" /\ y.k = "inf" THEN (IF x.s = y.s THEN x ELSE NaN)
    ELSE IF x.k = "inf" THEN x
    ELSE IF y.k = "inf" THEN y
    ELSE LET v == x.s * x.m + y.s * y.m
         IN  IF v > 0 THEN Fin(1, v)
             ELSE IF v < 0 THEN Fin(-1, 0 - v)
             ELSE IF x.s = -1 /\ y.s = -1 THEN Fin(-1, 0) ELSE Fin(1, 0)

\* `a as f32 / b as f32` for integers a (i64 or u64) and b >= 0.
FRatio(a, b) ==
    LET sa == IF a < 0 THEN -1 ELSE 1
        ma == IF a < 0 THEN 0 - a ELSE a
    IN  IF b = 0 THEN (IF a = 0 THEN NaN ELSE Inf(sa))
        ELSE Fin(sa, MulDiv(ma, Scale, b))

\* The order of the values: a.partial_cmp(&b), "None" when either is NaN.
FKey(x) == IF x.k = "inf" THEN x.s * 2147483647 ELSE x.s * x.m

PartialCmp(a, b) ==
    IF IsNaN(a) \/ IsNaN(b) THEN "None"
    ELSE IF FKey(a) < FKey(b) THEN "Less"
    ELSE IF FKey(a) > FKey(b) THEN "Greater"
    ELSE "Equal"

\* 2^(1/2), 2^(1/4), ..., 2^(1/4096) on the grid: the digits of exp2 and log2.
Exp2Roots ==
    << 122188, 102747, 94219, 90225, 88292, 87341,
       86869, 86634, 86517, 86458, 86429, 86415 >>

FracBits == Len(Exp2Roots)

\* floor(log2(n)) for an integer n >= 1.
RECURSIVE FloorLog2(_)
FloorLog2(n) == IF n < 2 THEN 0 ELSE 1 + FloorLog2(n \div 2)

\* The binary digits of log2(x / Scale) for Scale <= x < 2 * Scale, digit i and after,
\* as a magnitude on the grid: square, and take a digit when the square reaches 2.
RECURSIVE Log2Digits(_, _)
Log2Digits(x, i) ==
    IF i > FracBits THEN 0
    ELSE LET sq == MulDiv(x, x, Scale)
         IN  IF sq >= 2 * Scale
             THEN Scale \div Pow2(i) + Log2Digits(sq \div 2, i + 1)
             ELSE Log2Digits(sq, i + 1)

\* Scale * log2(n) for an integer n >= 1, rounded down to FracBits binary digits.
Log2Int(n) ==
    LET e == FloorLog2(n)
    IN  e * Scale + Log2Digits(MulDiv(n, Scale, Pow2(e)), 1)

Log2Scale == Log2Int(Scale)

\* 2^(f / Scale) on the grid for 0 <= f < Scale: the product of the roots of f's digits.
RECURSIVE Exp2Frac(_, _)
Exp2Frac(f, i) ==
    IF i > FracBits THEN Scale
    ELSE LET w == Scale \div Pow2(i)
         IN  IF f >= w
             THEN MulDiv(Exp2Roots[i], Exp2Frac(f - w, i + 1), Scale)
             ELSE Exp2Frac(f, i + 1)

\* x.log2()
FLog2(x) ==
    IF IsNaN(x) THEN NaN
    ELSE IF IsZero(x) THEN Inf(-1)
    ELSE IF x.s = -1 THEN NaN
    ELSE IF x.k = "inf" THEN Inf(1)
    ELSE LET l == Log2Int(x.m) - Log2Scale
         IN  IF l < 0 THEN Fin(-1, 0 - l) ELSE Fin(1, l)

\* x.exp2() for a finite x
FExp2(x) ==
    LET whole == x.m \div Scale
        frac  == x.m % Scale
    IN  IF x.s = 1
        THEN Fin(1, Pow2(whole) * Exp2Frac(frac, 1))
        ELSE Fin(1, MulDiv(Scale, Scale, Pow2(whole) * Exp2Frac(frac, 1)))

\* x.powf(1.414) for x >= 0 or NaN
FPowf(x) ==
    IF IsNaN(x) THEN NaN
    ELSE IF IsZero(x) THEN Fin(1, 0)
    ELSE IF x.k = "inf" THEN Inf(1)
    ELSE IF x = One THEN One
    ELSE LET l == FLog2(x)
         IN  FExp2(Fin(l.s, MulDiv(l.m, PowNum, PowDen)))

\* (n as f32).log2() for a u64 n
Log2OfInt(n) ==
    IF n = 0 THEN Inf(-1) ELSE Fin(1, Log2Int(n))

----------------------------------------------------------------------------
(* rank(), main.rs:88-112 *)

\* The score with the age penalty multiplied in.
ScoreTimesAge(rate, log_attempts, age_penalty_divisor) ==
    FMul(FMul(FMul(FPowf(rate), log_attempts), log_attempts), age_penalty_divisor)

\* main.rs:103
Score(rate, log_attempts, age_penalty_divisor) ==
    FDiv(FMul(FMul(FPowf(rate), log_attempts), log_attempts), age_penalty_divisor)

\* rank(&relay) with Unixtime::now() = now: [panic, scoring].  panic is the
\* overflow panic of a build with overflow checks.
rank(relay, now, checks) ==
    LET last_connected_at ==
            IF relay.last_connected_at = None THEN 0 ELSE relay.last_connected_at[1]
        ago == SubI64(now, AsI64(last_connected_at), checks)
        attempts == AddU64(relay.success_count, relay.failure_count, checks)
        success == relay.success_count
        rate == FRatio(relay.success_count, attempts.v)
        log_attempts == Log2OfInt(attempts.v)
        age_penalty_divisor == FAdd(One, FRatio(ago.v, Day))
        score == Score(rate, log_attempts, age_penalty_divisor)
    IN  [panic   |-> ago.panic \/ attempts.panic,
         scoring |-> [score |-> score, ago |-> ago.v, attempts |-> attempts.v,
                      success |-> success, rate |-> rate]]

----------------------------------------------------------------------------
(* The filter of main's loop, main.rs:38-71 *)

\* A URL is its host and the segments of its path; path() is "/" when there are none.
UrlPathIsRoot(url) == url.path = << >>

\* url.as_str().contains("mikedilger"): a host label or path segment is that word.
UrlContainsExcluded(url) ==
    \/ \E i \in 1..Len(url.host) : url.host[i] = "mikedilger"
    \/ \E i \in 1..Len(url.path) : url.path[i] = "mikedilger"

\* PublicKey::try_from_hex_string(s, true) is Ok: 64 hex digits that decode to a key.
\* A string is [len, hex, key]: its length, whether all of it is hex digits, and
\* whether the bytes are a valid key.
TryFromHexStringOk(s) == s.len = 64 /\ s.hex /\ s.key

\* The filter without the check of payments_url and fees.
EligibleNoFeeCheck(relay) ==
    IF relay.success_count = 0 THEN FALSE
    ELSE IF ~UrlPathIsRoot(relay.url) THEN FALSE
    ELSE IF relay.nip11 = None THEN FALSE
    ELSE LET nip11 == relay.nip11[1]
         IN  IF nip11.pubkey = None THEN FALSE
             ELSE IF ~TryFromHexStringOk(nip11.pubkey[1]) THEN FALSE
             ELSE IF UrlContainsExcluded(relay.url) THEN FALSE
             ELSE TRUE

\* The filter without the check of the URL's path.
EligibleNoPathCheck(relay) ==
    IF relay.success_count = 0 THEN FALSE
    ELSE IF relay.nip11 = None THEN FALSE
    ELSE LET nip11 == relay.nip11[1]
         IN  IF nip11.pubkey = None THEN FALSE
             ELSE IF ~TryFromHexStringOk(nip11.pubkey[1]) THEN FALSE
             ELSE IF nip11.payments_url # None \/ nip11.fees # None THEN FALSE
             ELSE IF UrlContainsExcluded(relay.url) THEN FALSE
             ELSE TRUE

\* The sequence of `continue`s: TRUE when the record reaches rank().
Eligible(relay) ==
    IF relay.success_count = 0 THEN FALSE
    ELSE IF ~UrlPathIsRoot(relay.url) THEN FALSE
    ELSE IF relay.nip11 = None THEN FALSE
    ELSE LET nip11 == relay.nip11[1]
         IN  IF nip11.pubkey = None THEN FALSE
             ELSE IF ~TryFromHexStringOk(nip11.pubkey[1]) THEN FALSE
             ELSE IF nip11.payments_url # None \/ nip11.fees # None THEN FALSE
             ELSE IF UrlContainsExcluded(relay.url) THEN FALSE
             ELSE TRUE

\* serde_json::from_str(&line): a line is None when it does not decode into a Relay,
\* and Some(relay) when it does.
FromStrOk(line) == line # None

----------------------------------------------------------------------------
(* ranked.sort_by(|a, b| b.1.score.partial_cmp(&a.1.score).unwrap()), main.rs:79 *)

\* The closure with a and b exchanged: an ascending order.
CompareAscending(a, b) == PartialCmp(a.scoring.score, b.scoring.score)

\* The closure: "None" is the unwrap() of None, a panic.
Compare(a, b) == PartialCmp(b.scoring.score, a.scoring.score)

\* An insertion that also moves x left of the elements it compares Equal to.
RECURSIVE InsertTailUnstable(_, _, _)
InsertTailUnstable(v, x, j) ==
    IF j = 0 THEN [panic |-> FALSE, v |-> <<x>> \o v]
    ELSE LET c == Compare(x, v[j])
         IN  IF c = "None" THEN [panic |-> TRUE, v |-> v]
             ELSE IF c \in {"Less", "Equal"} THEN InsertTailUnstable(v, x, j - 1)
             ELSE [panic |-> FALSE,
                   v |-> SubSeq(v, 1, j) \o <<x>> \o SubSeq(v, j + 1, Len(v))]

\* Insert x into the sorted v[1..j] from the right, as the standard library's
\* insertion sort does: x moves left while it compares Less.  (Longer slices are
\* merged; the result of a stable sort is the same.)
RECURSIVE InsertTail(_, _, _)
InsertTail(v, x, j) ==
    IF j = 0 THEN [panic |-> FALSE, v |-> <<x>> \o v]
    ELSE LET c == Compare(x, v[j])
         IN  IF c = "None" THEN [panic |-> TRUE, v |-> v]
             ELSE IF c = "Less" THEN InsertTail(v, x, j - 1)
             ELSE [panic |-> FALSE,
                   v |-> SubSeq(v, 1, j) \o <<x>> \o SubSeq(v, j + 1, Len(v))]

\* The stable sort of v[1..n]: [panic, v].  A slice of fewer than two elements is
\* returned without a comparison.
RECURSIVE SortPrefix(_, _)
SortPrefix(v, n) ==
    IF n = 0 THEN [panic |-> FALSE, v |-> << >>]
    ELSE LET p == SortPrefix(v, n - 1)
         IN  IF p.panic THEN p ELSE InsertTail(p.v, v[n], n - 1)

SortBy(v) == SortPrefix(v, Len(v))

\* ranked.iter().take(20) printed as "{url} {scoring:?}", main.rs:81-83
Take(v, n) == SubSeq(v, 1, IF Len(v) < n THEN Len(v) ELSE n)

Printed(v) == [i \in 1..Len(v) |-> [url |-> v[i].relay.url, scoring |-> v[i].scoring]]

----------------------------------------------------------------------------
(* The inputs of the model *)

\* Lines read in one run of Spec.
MaxLines == 3

\* Lines read in one run of SpecTop, and how many of them may differ from the
\* common line.
MaxTopLines == 22

MaxVaried == 1

\* What Unixtime::now() returns: two days after the epoch, or a day later.
Now0 == 2 * Day

HexKey == [len |-> 64, hex |-> TRUE, key |-> TRUE]

Nip11 == [pubkey |-> Some(HexKey), payments_url |-> None, fees |-> None]

RelayUrl(name) == [host |-> <<name, "example">>, path |-> << >>]

\* An eligible relay with the given counters and time of the last connection.
Candidate(name, success, failure, last) ==
    [url |-> RelayUrl(name), success_count |-> success, failure_count |-> failure,
     last_connected_at |-> last, nip11 |-> Some(Nip11)]

Common == Candidate("relay", 3, 1, Some(Now0 - Day))

\* Eligible relays: they differ in what rank() reads.  The last three overflow:
\* the sum of the counters, the cast of the time to i64, and the subtraction.
Candidates ==
    { Common,
      Candidate("other", 3, 1, Some(Now0 - Day)),
      Candidate("relay", 3, 1, Some(Now0)),
      Candidate("relay", 3, 1, None),
      Candidate("relay", 3, 1, Some(Now0 + 2 * Day)),
      Candidate("relay", 2, 2, Some(Now0 - Day)),
      Candidate("relay", 1, 0, Some(Now0 - Day)),
      Candidate("relay", 1, 0, Some(Now0)),
      Candidate("relay", 1, 0, Some(Now0 + Day)),
      Candidate("relay", 1, 0, Some(Now0 + 2 * Day)),
      Candidate("relay", 1, U64Max, Some(Now0 - Day)),
      Candidate("relay", 3, 1, Some(U64Max - Day + 1)),
      Candidate("relay", 5, 3, Some(I64Max + 1)) }

\* Relays the filter drops, one for each `continue`.
Rejects ==
    { [Common EXCEPT !.success_count = 0],
      [Common EXCEPT !.url.path = <<"inbox">>],
      [Common EXCEPT !.nip11 = None],
      [Common EXCEPT !.nip11 = Some([Nip11 EXCEPT !.pubkey = None])],
      [Common EXCEPT !.nip11 =
          Some([Nip11 EXCEPT !.pubkey = Some([len |-> 8, hex |-> TRUE, key |-> FALSE])])],
      [Common EXCEPT !.nip11 = Some([Nip11 EXCEPT !.payments_url = Some("pay")])],
      [Common EXCEPT !.nip11 = Some([Nip11 EXCEPT !.fees = Some("fees")])],
      [Common EXCEPT !.url.host = <<"mikedilger", "example">>] }

At(relay, now) == [line |-> Some(relay), now |-> now]

Undecodable == [line |-> None, now |-> Now0]

Inputs ==
    {At(r, Now0) : r \in Candidates \cup Rejects}
        \cup {At(Common, Now0 + Day), Undecodable}

CommonInput == At(Common, Now0)

TopInputs ==
    { CommonInput,
      At(Candidate("relay", 3, 1, Some(Now0)), Now0),
      At(Candidate("relay", 3, 1, None), Now0),
      At(Candidate("relay", 1, 0, Some(Now0 + Day)), Now0),
      At([Common EXCEPT !.success_count = 0], Now0),
      Undecodable }

\* rank() on the inputs of the model, computed once for each.
RankOf ==
    [inp \in {i \in Inputs \cup TopInputs : FromStrOk(i.line)}, checks \in BOOLEAN |->
        rank(inp.line[1], inp.now, checks)]

\* The loop body that skips a line that does not decode.
LoopBodySkipBad(rk, inp, n, checks) ==
    IF ~FromStrOk(inp.line) THEN [pc |-> "reading", ranked |-> rk]
    ELSE LET relay == inp.line[1]
         IN  IF ~Eligible(relay) THEN [pc |-> "reading", ranked |-> rk]
             ELSE LET r == RankOf[inp, checks]
                  IN  IF r.panic THEN [pc |-> "overflow_panic", ranked |-> rk]
                      ELSE [pc |-> "reading",
                            ranked |-> Append(rk, [relay   |-> relay,
                                                   scoring |-> r.scoring,
                                                   pubkey  |-> relay.nip11[1].pubkey[1],
                                                   line    |-> n])]

\* One iteration of the loop on the n-th line, read when the clock shows inp.now:
\* the next control state and the working set.
LoopBody(rk, inp, n, checks) ==
    IF ~FromStrOk(inp.line) THEN [pc |-> "failed", ranked |-> rk]
    ELSE LET relay == inp.line[1]
         IN  IF ~Eligible(relay) THEN [pc |-> "reading", ranked |-> rk]
             ELSE LET r == RankOf[inp, checks]
                  IN  IF r.panic THEN [pc |-> "overflow_panic", ranked |-> rk]
                      ELSE [pc |-> "reading",
                            ranked |-> Append(rk, [relay   |-> relay,
                                                   scoring |-> r.scoring,
                                                   pubkey  |-> relay.nip11[1].pubkey[1],
                                                   line    |-> n])]

----------------------------------------------------------------------------
(* main(), main.rs:29-86 *)

VARIABLES
    lines,            \* the lines read so far, each with the clock's value at its read
    ranked,           \* main's `ranked`
    output,           \* the lines printed
    pc,               \* "reading", "sorted", "done", or how the run ended early
    overflow_checks   \* the build: TRUE when integer overflow panics

vars == <<lines, ranked, output, pc, overflow_checks>>

Init ==
    /\ lines = << >>
    /\ ranked = << >>
    /\ output = << >>
    /\ pc = "reading"
    /\ overflow_checks \in BOOLEAN

\* The body of `for line in lines` on one more line.
Consume(inp) ==
    LET r == LoopBody(ranked, inp, Len(lines) + 1, overflow_checks)
    IN  /\ lines' = Append(lines, inp)
        /\ ranked' = r.ranked
        /\ pc' = r.pc
        /\ UNCHANGED <<output, overflow_checks>>

ReadLine ==
    /\ pc = "reading"
    /\ Len(lines) < MaxLines
    /\ \E inp \in Inputs : Consume(inp)

\* A long input: lines equal to the common one, but for at most MaxVaried of them.
Varied(ls) == Cardinality({i \in 1..Len(ls) : ls[i] # CommonInput})

ReadLineTop ==
    /\ pc = "reading"
    /\ Len(lines) < MaxTopLines
    /\ \E inp \in TopInputs :
          /\ inp # CommonInput => Varied(lines) < MaxVaried
          /\ Consume(inp)

\* End of input: the sort, which panics on a score that does not compare.
SortRanked ==
    /\ pc = "reading"
    /\ LET s == SortBy(ranked)
       IN  IF s.panic
           THEN pc' = "unwrap_panic" /\ UNCHANGED ranked
           ELSE pc' = "sorted" /\ ranked' = s.v
    /\ UNCHANGED <<lines, output, overflow_checks>>

\* The print loop and Ok(()).
PrintTop ==
    /\ pc = "sorted"
    /\ output' = Printed(Take(ranked, TopN))
    /\ pc' = "done"
    /\ UNCHANGED <<lines, ranked, overflow_checks>>

\* The exit code of the process: 0 from Ok(()), 1 from Err, 101 from a panic.
ExitCode ==
    CASE pc = "done" -> 0
      [] pc = "failed" -> 1
      [] pc \in {"overflow_panic", "unwrap_panic"} -> 101

Next == ReadLine \/ SortRanked \/ PrintTop

Spec == Init /\ [][Next]_vars

NextTop == ReadLineTop \/ SortRanked \/ PrintTop

SpecTop == Init /\ [][NextTop]_vars

----------------------------------------------------------------------------
(* The claims *)

Rk == 1..Len(ranked)

ScoreAt(i) == ranked[i].scoring.score

\* a >= b for two scores that compare
AtLeast(a, b) == PartialCmp(a, b) \in {"Greater", "Equal"}

\* The six predicates of the filter, as the specification lists them.
PassesAllSix(relay) ==
    /\ relay.success_count > 0
    /\ relay.url.path = << >>
    /\ relay.nip11 # None
    /\ relay.nip11[1].pubkey # None
    /\ LET key == relay.nip11[1].pubkey[1] IN key.len = 64 /\ key.hex /\ key.key
    /\ relay.nip11[1].payments_url = None /\ relay.nip11[1].fees = None
    /\ \A i \in 1..Len(relay.url.host) : relay.url.host[i] # "mikedilger"

Decodes(i) == lines[i].line # None

PassingLines == {i \in 1..Len(lines) : Decodes(i) /\ PassesAllSix(lines[i].line[1])}

RejectedLines == {i \in 1..Len(lines) : Decodes(i) /\ ~PassesAllSix(lines[i].line[1])}

\* The printed lines are the first candidates of the working set, in its order.
PrintedAreFirst ==
    /\ Len(output) <= Len(ranked)
    /\ \A i \in 1..Len(output) :
          output[i] = [url |-> ranked[i].relay.url, scoring |-> ranked[i].scoring]

\* The run has ended: by Ok(()), by Err, or by a panic.
Ended == pc \in {"done", "failed", "overflow_panic", "unwrap_panic"}

\* The line passed the filter and has a score, which is not NaN.
ScoredComparable(i) ==
    \E k \in Rk : ranked[k].line = i /\ ~IsNaN(ScoreAt(k))

\* C1: a run whose lines all parse and whose candidates all have scores that compare
\* ends normally; its printed lines are in non-increasing order of score, no
\* candidate left out scores higher than a printed one, and it prints
\* min(20, number of records passing the six predicates) lines.
C1_OutputIsTopTwenty ==
    (/\ Ended
     /\ \A i \in 1..Len(lines) : Decodes(i)
     /\ \A i \in PassingLines : ScoredComparable(i))
    => /\ pc = "done"
       /\ PrintedAreFirst
       /\ \A i \in 1..(Len(output) - 1) :
             AtLeast(output[i].scoring.score, output[i + 1].scoring.score)
       /\ \A i \in 1..Len(output) : \A j \in (Len(output) + 1)..Len(ranked) :
             AtLeast(output[i].scoring.score, ScoreAt(j))
       /\ Len(output) =
             (IF Cardinality(PassingLines) < 20 THEN Cardinality(PassingLines) ELSE 20)

\* More than 20 candidates, of different scores, were ranked and 20 printed, one
\* left out scoring lower than a printed one.
C1_Witness ==
    /\ pc = "done"
    /\ Len(ranked) > 20
    /\ Len(output) = 20
    /\ PartialCmp(output[1].scoring.score, ScoreAt(Len(ranked))) = "Greater"

\* C2: every element of the working set, and so every printed candidate, has
\* success_count > 0, the path "/", a NIP-11 document with an operator key that
\* decoded, no payments_url, no fees, and a URL without the excluded word.
C2_RankedAreEligible ==
    /\ \A i \in Rk :
          /\ PassesAllSix(ranked[i].relay)
          /\ ranked[i].pubkey = ranked[i].relay.nip11[1].pubkey[1]
          /\ ranked[i].relay = lines[ranked[i].line].line[1]
    /\ \A k \in 1..Len(output) : \E i \in Rk :
          /\ output[k].url = ranked[i].relay.url
          /\ output[k].scoring = ranked[i].scoring

\* Rejected and accepted lines were read, and the accepted ones printed.
C2_Witness ==
    /\ pc = "done"
    /\ Len(output) >= 2
    /\ Cardinality(RejectedLines) >= 1

\* C3: once a line that does not decode has been read, wherever it stands, the run
\* has ended with a non-zero exit code and nothing was printed.
C3_BadLineAborts ==
    (\E i \in 1..Len(lines) : ~Decodes(i))
    => /\ pc = "failed"
       /\ ExitCode # 0
       /\ output = << >>

\* The line that does not decode came after lines that were scored.
C3_Witness ==
    /\ Len(lines) >= 3
    /\ ~Decodes(Len(lines))
    /\ Len(ranked) >= 2
    /\ pc = "failed"

\* C4 as claimed: a not-a-number score in the working set is fatal at the sort, for
\* a working set of any size, and nothing is printed.
C4_NaNIsFatal ==
    (\E i \in Rk : IsNaN(ScoreAt(i)))
    => /\ pc \in {"reading", "failed", "overflow_panic", "unwrap_panic"}
       /\ output = << >>

\* The last line read decoded and was rejected by the filter.
LastRejected == Len(lines) \in RejectedLines

\* C5: a rejected record leaves the run reading, the working set and the output as
\* they were; the eligible records around it are all scored and added, in order; a
\* run whose records are all rejected (or that has none) ends with exit code 0 and
\* an empty output.
C5_RejectionIsSilent ==
    /\ [][(lines' # lines /\ LastRejected')
             => (pc' = "reading" /\ ranked' = ranked /\ output' = output)]_vars
    /\ [](pc = "reading" =>
             /\ {ranked[i].line : i \in Rk} = PassingLines
             /\ \A i \in Rk : \A j \in Rk : i < j => ranked[i].line < ranked[j].line)
    /\ []((/\ Ended
           /\ PassingLines = {}
           /\ \A i \in 1..Len(lines) : Decodes(i))
          => (pc = "done" /\ ExitCode = 0 /\ output = << >>))

\* A rejected line was followed by an eligible one, which was scored and printed.
C5_Witness ==
    /\ pc = "done"
    /\ 1 \in RejectedLines
    /\ 2 \in RejectedLines
    /\ \E i \in Rk : ranked[i].line = 3
    /\ Len(output) = 1

\* C6 as claimed: a candidate with one success and no failure scores 0.0, whatever
\* its last connection and the clock.
C6_OneAttemptScoresZero ==
    \A i \in Rk :
        (ranked[i].relay.success_count = 1 /\ ranked[i].relay.failure_count = 0)
        => IsZero(ScoreAt(i))

SameCounts(i, j) ==
    /\ ranked[i].relay.success_count = ranked[j].relay.success_count
    /\ ranked[i].relay.failure_count = ranked[j].relay.failure_count

\* C7 as claimed: of two candidates with the same counters, the one with the larger
\* age has the strictly smaller score.
C7_OlderScoresStrictlyLower ==
    \A i \in Rk : \A j \in Rk :
        (SameCounts(i, j) /\ ranked[i].scoring.ago < ranked[j].scoring.ago)
        => PartialCmp(ScoreAt(j), ScoreAt(i)) = "Less"

\* C7 as amended: of two candidates with the same counters and ages above -86400
\* seconds (a positive divisor), the one with the larger age has no larger a score.
C7_OlderScoresNoHigher ==
    \A i \in Rk : \A j \in Rk :
        (/\ SameCounts(i, j)
         /\ ranked[i].scoring.ago < ranked[j].scoring.ago
         /\ ranked[i].scoring.ago > 0 - 86400)
        => PartialCmp(ScoreAt(j), ScoreAt(i)) \in {"Less", "Equal"}

\* Two candidates with the same counters, more than one attempt and different ages,
\* the older with the strictly smaller score.
C7_Witness ==
    \E i \in Rk : \E j \in Rk :
        /\ SameCounts(i, j)
        /\ ranked[i].scoring.attempts >= 2
        /\ ranked[i].scoring.ago > 0 - 86400
        /\ ranked[i].scoring.ago < ranked[j].scoring.ago
        /\ PartialCmp(ScoreAt(j), ScoreAt(i)) = "Less"

\* C8 as claimed: the attempts of every scored candidate are positive.
C8_AttemptsPositive ==
    \A i \in Rk : ranked[i].scoring.attempts > 0

\* C9 as claimed: rank() never aborts, and returns the sum of the counters, the
\* success counter and the difference of the clock and the last connection.
C9_RankIsTotal ==
    /\ pc # "overflow_panic"
    /\ \A i \in Rk :
          LET relay == ranked[i].relay
              last  == IF relay.last_connected_at = None
                       THEN 0 ELSE relay.last_connected_at[1]
          IN  /\ ranked[i].scoring.attempts = relay.success_count + relay.failure_count
              /\ ranked[i].scoring.success = relay.success_count
              /\ ranked[i].scoring.ago = lines[ranked[i].line].now - last

\* C10: after the sort, candidates of equal score stand in the order of their
\* lines, and the printed ones are the first of that order: of the candidates tied
\* across position 20, those that arrived first are printed.
C10_TiesKeepArrivalOrder ==
    pc \in {"sorted", "done"}
    => /\ \A i \in Rk : \A j \in Rk :
             (i < j /\ PartialCmp(ScoreAt(i), ScoreAt(j)) = "Equal")
             => ranked[i].line < ranked[j].line
       /\ pc = "done" => PrintedAreFirst

\* Candidates 20 and 21 of the sorted working set have the same score, and 20 lines
\* were printed.
C10_Witness ==
    /\ pc = "done"
    /\ Len(ranked) > 20
    /\ Len(output) = 20
    /\ PartialCmp(ScoreAt(20), ScoreAt(21)) = "Equal"
    /\ PartialCmp(ScoreAt(1), ScoreAt(2)) = "Greater"

====
